---------------------------- MODULE Spec2Model ----------------------------
(***************************************************************************)
(* The "prisoners and a light switch" simulation of src/src/main.rs:       *)
(* Prisoner (the agent protocol), WorldState (one trial's world and its    *)
(* iterate step), run_simulation (the trial loop) and main (the parallel   *)
(* map over the repetitions and the averages).                             *)
(*                                                                         *)
(* Vec<T> of length n is a function on 0..n-1, Option<T> is a sequence of  *)
(* length 0 (None) or 1 (Some).                                            *)
(***************************************************************************)
EXTENDS Naturals, Sequences, FiniteSets

\* Bounds of the model.
MaxP == 3              \* Spec: largest --prisoner-count
MaxDay == 6            \* Spec: a trial is followed for its first MaxDay steps
MaxLogPeriod == 2      \* Spec: largest --log-period
U32Range == 4          \* the number of values of a u32 (2^32 in the program)
MaxPOverflow == 3      \* SpecOverflow: largest --prisoner-count
MaxPLive == 2          \* SpecLive: largest --prisoner-count
MaxStepsOverflow == 7  \* SpecOverflow: a trial is followed for its first MaxStepsOverflow steps
MaxPMain == 2          \* SpecMain: largest --prisoner-count
MaxReps == 2           \* SpecMain: largest --repetitions
MaxStepsMain == 3      \* SpecMain: a trial is followed for its first MaxStepsMain steps
MaxPPool == 2          \* SpecPool: largest --prisoner-count
MaxRepsPool == 2       \* SpecPool: largest --repetitions
MaxDrawsPool == 5      \* SpecPool: the trials are followed for their first MaxDrawsPool draws in all

VARIABLES
    args,                 \* Args: flag_prisoner_count, flag_repetitions, flag_log_period
    sims,                 \* per repetition: the run_simulation call (position, WorldState, result)
    selections,           \* per repetition: the indices drawn by gen_range so far
    logs,                 \* per repetition: the "Day: .., max-known: .." lines printed so far
    main_pc,              \* main: "map", "done" or "panicked"
    averages              \* main: <<>> or <<[average_runtime, average_last_interrogated_day]>>

vars == <<args, sims, selections, logs, main_pc, averages>>

None == <<>>
Some(x) == <<x>>
unwrap(o) == o[1]

-----------------------------------------------------------------------------
\* fn count_true.  The sum is at most the length of the Vec, which is the
\* prisoner-count: it stays far below the range of a u32.
RECURSIVE count_true_upto(_, _)
count_true_upto(v, n) ==
    IF n = 0 THEN 0
    ELSE count_true_upto(v, n - 1) + (IF v[n - 1] THEN 1 ELSE 0)

count_true(v) == count_true_upto(v, Cardinality(DOMAIN v))

\* Prisoner::new
Prisoner_new(prisoner_count) ==
    [known_visited_prisoners |-> [i \in 0..(prisoner_count - 1) |-> FALSE]]

\* The elements of a Vec
Elems(s) == {s[k] : k \in 1..Len(s)}

\* A slot that is off by one day
get_todays_prisoner_indexes_shifted(self, day) ==
    <<(day + 1) % Cardinality(DOMAIN self.known_visited_prisoners)>>

\* Prisoner::get_todays_prisoner_indexes
get_todays_prisoner_indexes(self, day) ==
    LET prisoner_count == Cardinality(DOMAIN self.known_visited_prisoners)
        period == prisoner_count
        day_index == day % period
    IN  <<day_index>>

\* Line 63 left out
MarkSelf_skipped(self, self_index) == self

\* Line 63: I now know that I've been interrogated
MarkSelf(self, self_index) ==
    [self EXCEPT !.known_visited_prisoners[self_index] = TRUE]

\* Lines 66-70 marking today's prisoner, not yesterday's
MarkYesterday_today(self, day, light_is_on) ==
    IF day > 0 /\ light_is_on
    THEN [self EXCEPT !.known_visited_prisoners =
            [i \in DOMAIN self.known_visited_prisoners |->
                IF i \in Elems(get_todays_prisoner_indexes(self, day))
                THEN TRUE
                ELSE self.known_visited_prisoners[i]]]
    ELSE self

\* Lines 66-70 without the test for day 0: the slot before day 0 is the last one
MarkYesterday_dayzero(self, day, light_is_on) ==
    IF light_is_on
    THEN [self EXCEPT !.known_visited_prisoners =
            [i \in DOMAIN self.known_visited_prisoners |->
                IF i \in Elems(get_todays_prisoner_indexes(self,
                        day + Cardinality(DOMAIN self.known_visited_prisoners) - 1))
                THEN TRUE
                ELSE self.known_visited_prisoners[i]]]
    ELSE self

\* Lines 66-70: the light that was left on tells about yesterday's prisoner
MarkYesterday(self, day, light_is_on) ==
    IF day > 0 /\ light_is_on
    THEN [self EXCEPT !.known_visited_prisoners =
            [i \in DOMAIN self.known_visited_prisoners |->
                IF i \in Elems(get_todays_prisoner_indexes(self, day - 1))
                THEN TRUE
                ELSE self.known_visited_prisoners[i]]]
    ELSE self

\* Line 73 returning true whatever is known
KnowsToday_always(self, day) == TRUE

\* Line 73: whether we know that today's prisoner has been interrogated
KnowsToday(self, day) ==
    \A i \in Elems(get_todays_prisoner_indexes(self, day)) :
        self.known_visited_prisoners[i]

\* Prisoner::select_light_position: the prisoner after the call, and the value returned
select_light_position(self, day, light_is_on, self_index) ==
    LET p1 == MarkSelf(self, self_index)
        p2 == MarkYesterday(p1, day, light_is_on)
    IN  [prisoner |-> p2, ret |-> KnowsToday(p2, day)]

\* Prisoner::count_known
count_known(self) == count_true(self.known_visited_prisoners)

\* WorldState::new
WorldState_new(prisoner_count) ==
    [prisoners |-> [i \in 0..(prisoner_count - 1) |-> Prisoner_new(prisoner_count)],
     interrogated_prisoners |-> [i \in 0..(prisoner_count - 1) |-> FALSE],
     day |-> 0,
     light_is_on |-> FALSE,
     last_prisoner_interrogated_on_day |-> None]

\* Line 105 left out
MarkInterrogated_skipped(interrogated_prisoners, chosen_prisoner_index) ==
    interrogated_prisoners

\* Line 105 with an assignment of the whole Vec
MarkInterrogated_only(interrogated_prisoners, chosen_prisoner_index) ==
    [i \in DOMAIN interrogated_prisoners |-> i = chosen_prisoner_index]

\* Line 105: mark the chosen prisoner as having been interrogated
MarkInterrogated(interrogated_prisoners, chosen_prisoner_index) ==
    [interrogated_prisoners EXCEPT ![chosen_prisoner_index] = TRUE]

\* Lines 117-126 with a test that no count passes
RecordLastInterrogated_never(last, actual_count, prisoner_count, day) ==
    IF last # None THEN last
    ELSE IF actual_count > prisoner_count THEN Some(day)
    ELSE last

\* Lines 117-126 without the Some(_) arm
RecordLastInterrogated_overwriting(last, actual_count, prisoner_count, day) ==
    IF actual_count = prisoner_count THEN Some(day) ELSE last

\* Lines 117-126: record the day when the last prisoner was interrogated
RecordLastInterrogated(last, actual_count, prisoner_count, day) ==
    IF last # None THEN last
    ELSE IF actual_count = prisoner_count THEN Some(day)
    ELSE last

\* Lines 91 and 102 with one Prisoner that every entry of the Vec refers to
StorePrisoner_aliased(prisoners, chosen_prisoner_index, chosen_prisoner) ==
    [i \in DOMAIN prisoners |-> chosen_prisoner]

\* Line 102: chosen_prisoner is a mutable borrow of self.prisoners[chosen_prisoner_index],
\* and line 91 made every entry of the Vec a Prisoner of its own (a clone)
StorePrisoner(prisoners, chosen_prisoner_index, chosen_prisoner) ==
    [prisoners EXCEPT ![chosen_prisoner_index] = chosen_prisoner]

\* Line 128: the prisoner claims more interrogations than there were
OverEstimated(reported_count, actual_count) == reported_count > actual_count

\* Line 137 with > for ==
KnowsAll_more(reported_count, prisoner_count) == reported_count > prisoner_count

\* Line 137: this prisoner now knows that all prisoners have been interrogated
KnowsAll(reported_count, prisoner_count) == reported_count = prisoner_count

\* Line 141: self.day += 1 on a day counter with the values 0..limit-1
NextDay(day, limit) == (day + 1) % limit

\* WorldState::iterate with chosen_prisoner_index drawn by gen_range: the
\* WorldState after the call and what the call does: it returns ("true",
\* "false") or panics ("panic" at line 129, "overflow" at line 141).  When the
\* day is the largest value of the counter, line 141 panics in a build with
\* overflow checks and wraps in a build without.
iterate(self, chosen_prisoner_index, limit, overflow_checks) ==
    LET prisoner_count == Cardinality(DOMAIN self.prisoners)
        interrogated == MarkInterrogated(self.interrogated_prisoners, chosen_prisoner_index)
        sel == select_light_position(self.prisoners[chosen_prisoner_index],
                                     self.day, self.light_is_on, chosen_prisoner_index)
        prisoners == StorePrisoner(self.prisoners, chosen_prisoner_index, sel.prisoner)
        actual_count == count_true(interrogated)
        reported_count == count_known(sel.prisoner)
        last == RecordLastInterrogated(self.last_prisoner_interrogated_on_day,
                                       actual_count, prisoner_count, self.day)
        s1 == [prisoners |-> prisoners,
               interrogated_prisoners |-> interrogated,
               day |-> self.day,
               light_is_on |-> sel.ret,
               last_prisoner_interrogated_on_day |-> last]
    IN  IF OverEstimated(reported_count, actual_count)
        THEN [state |-> s1, ret |-> "panic"]
        ELSE IF KnowsAll(reported_count, prisoner_count)
        THEN [state |-> s1, ret |-> "true"]
        ELSE IF self.day + 1 >= limit /\ overflow_checks
        THEN [state |-> s1, ret |-> "overflow"]
        ELSE [state |-> [s1 EXCEPT !.day = NextDay(self.day, limit)], ret |-> "false"]

\* WorldState::best_known
best_known(self) ==
    LET counts == {count_known(self.prisoners[i]) : i \in DOMAIN self.prisoners}
    IN  CHOOSE m \in counts : \A n \in counts : n <= m

-----------------------------------------------------------------------------
\* rand::Rng::gen_range(low, high): the values it can return; it panics when low >= high
gen_range(low, high) == IF low < high THEN low..(high - 1) ELSE {}

\* main line 198: --log-period=0 means no logging
maybe_log_period(flag_log_period) ==
    IF flag_log_period = 0 THEN None ELSE Some(flag_log_period)

\* A run_simulation call that main has handed to the thread pool and that has
\* not yet reached line 164
Spawned == [pc |-> "spawned", state |-> None, result |-> None, fault |-> "none"]

\* Lines 179-188: the result of the trial; unwrap panics on None
SimulationResult(state) ==
    IF state.last_prisoner_interrogated_on_day = None
    THEN None
    ELSE Some([last_prisoner_interrogated_on_day |->
                    unwrap(state.last_prisoner_interrogated_on_day),
               prisoners_freed_on_day |-> state.day])

\* Lines 168-176 without the test of line 171
LogLine_every(log, state, log_period) ==
    IF log_period # None
    THEN Append(log, [day |-> state.day, max_known |-> best_known(state)])
    ELSE log

\* Lines 168-176: the body of the while loop prints when the day aligns with the period
LogLine(log, state, log_period) ==
    IF log_period # None /\ state.day % unwrap(log_period) = 0
    THEN Append(log, [day |-> state.day, max_known |-> best_known(state)])
    ELSE log

\* The most recent `keep` draws
Recent(s, keep) ==
    IF Len(s) <= keep THEN s ELSE SubSeq(s, Len(s) - keep + 1, Len(s))

\* The run_simulation call after one evaluation of the loop condition
\* `!state.iterate()` that returned r, with the lines that follow it
AfterIterate(sim, r) ==
    CASE r.ret = "panic" ->
            [sim EXCEPT !.pc = "panicked", !.state = Some(r.state),
                        !.fault = "over_estimated"]
      [] r.ret = "overflow" ->
            [sim EXCEPT !.pc = "panicked", !.state = Some(r.state),
                        !.fault = "day_overflow"]
      [] r.ret = "true" /\ SimulationResult(r.state) = None ->
            [sim EXCEPT !.pc = "panicked", !.state = Some(r.state),
                        !.fault = "unwrap_none"]
      [] r.ret = "true" /\ SimulationResult(r.state) # None ->
            [sim EXCEPT !.pc = "returned", !.state = Some(r.state),
                        !.result = SimulationResult(r.state)]
      [] OTHER ->
            [sim EXCEPT !.state = Some(r.state)]

\* The fields of the first n results
freed_days(results, n) == [k \in 1..n |-> results[k].prisoners_freed_on_day]
last_days(results, n) == [k \in 1..n |-> results[k].last_prisoner_interrogated_on_day]

\* A fold whose closure drops the accumulator
fold_sum_last(xs, limit) == IF Len(xs) = 0 THEN 0 ELSE xs[Len(xs)] % limit

\* iter().fold(0, |sum, x| sum + x) on u32 with the values 0..limit-1: the sum
\* a build without overflow checks computes
RECURSIVE fold_sum(_, _)
fold_sum(xs, limit) ==
    IF Len(xs) = 0 THEN 0
    ELSE (fold_sum(SubSeq(xs, 1, Len(xs) - 1), limit) + xs[Len(xs)]) % limit

\* Whether some `sum + x` of the fold overflows: a build with overflow checks panics
RECURSIVE fold_overflows(_, _)
fold_overflows(xs, limit) ==
    IF Len(xs) = 0 THEN FALSE
    ELSE \/ fold_overflows(SubSeq(xs, 1, Len(xs) - 1), limit)
         \/ fold_sum(SubSeq(xs, 1, Len(xs) - 1), limit) + xs[Len(xs)] >= limit

\* Line 209
average_runtime(results, repetitions, limit) ==
    fold_sum(freed_days(results, Len(results)), limit) \div repetitions

\* Line 210
average_last_interrogated_day(results, repetitions, limit) ==
    fold_sum(last_days(results, Len(results)), limit) \div repetitions

-----------------------------------------------------------------------------
\* Lines 155-164 with one WorldState shared by the calls: constructing it
\* anew replaces the WorldState the running calls work on
StartSimulation_shared(i) ==
    /\ main_pc = "map"
    /\ i \in DOMAIN sims
    /\ sims[i].pc = "spawned"
    /\ sims' = [k \in DOMAIN sims |->
                    IF k = i
                    THEN [sims[k] EXCEPT !.pc = "loop",
                            !.state = Some(WorldState_new(args.flag_prisoner_count))]
                    ELSE IF sims[k].pc = "loop"
                    THEN [sims[k] EXCEPT
                            !.state = Some(WorldState_new(args.flag_prisoner_count))]
                    ELSE sims[k]]
    /\ UNCHANGED <<args, selections, logs, main_pc, averages>>

\* run_simulation lines 155-164: the call constructs its WorldState
StartSimulation(i) ==
    /\ main_pc = "map"
    /\ i \in DOMAIN sims
    /\ sims[i].pc = "spawned"
    /\ sims' = [sims EXCEPT ![i] = [@ EXCEPT !.pc = "loop",
                    !.state = Some(WorldState_new(args.flag_prisoner_count))]]
    /\ UNCHANGED <<args, selections, logs, main_pc, averages>>

\* run_simulation lines 166-188: one evaluation of `!state.iterate()`, then the
\* loop body (the log line) or the lines after the loop (the result).  A u32
\* has the values 0..limit-1; selections keeps the last `keep` draws, and a
\* trial is followed while fewer than cap draws are kept (without end when
\* keep < cap).
LoopIteration(i, limit, cap, keep, overflow_checks) ==
    /\ main_pc = "map"
    /\ i \in DOMAIN sims
    /\ sims[i].pc = "loop"
    /\ Len(selections[i]) < cap
    /\ IF gen_range(0, args.flag_prisoner_count) = {}
       THEN /\ sims' = [sims EXCEPT ![i] = [@ EXCEPT !.pc = "panicked",
                                                     !.fault = "gen_range"]]
            /\ UNCHANGED <<selections, logs>>
       ELSE \E chosen_prisoner_index \in gen_range(0, args.flag_prisoner_count) :
              LET r == iterate(unwrap(sims[i].state), chosen_prisoner_index, limit,
                               overflow_checks)
                  sim == AfterIterate(sims[i], r)
              IN  /\ sims' = [sims EXCEPT ![i] = sim]
                  /\ selections' = [selections EXCEPT
                        ![i] = Recent(Append(@, chosen_prisoner_index), keep)]
                  /\ logs' = [logs EXCEPT ![i] =
                        IF sim.pc = "loop"
                        THEN LogLine(@, unwrap(sim.state),
                                     maybe_log_period(args.flag_log_period))
                        ELSE @]
    /\ UNCHANGED <<args, main_pc, averages>>

\* main lines 206-211: every call has come back; collect and average.  A
\* panic of a call is a panic of main, and so are a division by zero and, in
\* a build with overflow checks, a sum that overflows.
Summarise(limit, overflow_checks) ==
    /\ main_pc = "map"
    /\ \A i \in DOMAIN sims : sims[i].pc \in {"returned", "panicked"}
    /\ LET simulation_results == [k \in DOMAIN sims |-> unwrap(sims[k].result)]
           n == Len(simulation_results)
       IN  IF \E i \in DOMAIN sims : sims[i].pc = "panicked"
           THEN main_pc' = "panicked" /\ UNCHANGED averages
           ELSE IF overflow_checks /\ fold_overflows(freed_days(simulation_results, n), limit)
           THEN main_pc' = "panicked" /\ UNCHANGED averages
           ELSE IF args.flag_repetitions = 0
           THEN main_pc' = "panicked" /\ UNCHANGED averages
           ELSE IF overflow_checks /\ fold_overflows(last_days(simulation_results, n), limit)
           THEN main_pc' = "panicked" /\ UNCHANGED averages
           ELSE /\ main_pc' = "done"
                /\ averages' = Some(
                     [average_runtime |->
                          average_runtime(simulation_results, args.flag_repetitions, limit),
                      average_last_interrogated_day |->
                          average_last_interrogated_day(simulation_results,
                                                        args.flag_repetitions, limit)])
    /\ UNCHANGED <<args, sims, selections, logs>>

\* The state when main has parsed args and handed the calls to the pool
InitWith(P, R, L) ==
    /\ args \in [flag_prisoner_count : P, flag_repetitions : R, flag_log_period : L]
    /\ sims = [i \in 1..args.flag_repetitions |-> Spawned]
    /\ selections = [i \in 1..args.flag_repetitions |-> <<>>]
    /\ logs = [i \in 1..args.flag_repetitions |-> <<>>]
    /\ main_pc = "map"
    /\ averages = None

-----------------------------------------------------------------------------
\* One trial (--repetitions=1, the default) with every draw of the generator,
\* followed for MaxDay steps: the day stays below any counter limit above
\* MaxDay, and no sum overflows.
Init == InitWith(1..MaxP, {1}, 0..MaxLogPeriod)

Next ==
    \/ StartSimulation(1)
    \/ LoopIteration(1, MaxDay + 1, MaxDay, MaxDay, TRUE)
    \/ Summarise(MaxDay + 1, TRUE)

Spec == Init /\ [][Next]_vars

\* One trial on a day counter of U32Range values, which the trial can exhaust:
\* line 141 then panics in a build with overflow checks and wraps in one without.
InitOverflow == InitWith(1..MaxPOverflow, {1}, {0})

NextOverflow ==
    \/ StartSimulation(1)
    \/ \E overflow_checks \in BOOLEAN :
          LoopIteration(1, U32Range, MaxStepsOverflow, MaxStepsOverflow, overflow_checks)
    \/ \E overflow_checks \in BOOLEAN : Summarise(U32Range, overflow_checks)

SpecOverflow == InitOverflow /\ [][NextOverflow]_vars

\* One trial on a day counter of U32Range values, followed without end: of
\* the draws only the last two are kept.
InitLive == InitWith(1..MaxPLive, {1}, {0})

LoopLive == \E overflow_checks \in BOOLEAN : LoopIteration(1, U32Range, 3, 2, overflow_checks)

NextLive ==
    \/ StartSimulation(1)
    \/ LoopLive
    \/ \E overflow_checks \in BOOLEAN : Summarise(U32Range, overflow_checks)

\* The pool runs the call it was handed and main goes on once the call is
\* back.  That the loop goes on drawing is part of what the claims assume of
\* the draws.
SpecLive ==
    /\ InitLive /\ [][NextLive]_vars
    /\ WF_vars(StartSimulation(1))
    /\ WF_vars(\E overflow_checks \in BOOLEAN : Summarise(U32Range, overflow_checks))

\* The program: main with any --prisoner-count and --repetitions, the calls
\* of run_simulation running in parallel on the pool, u32 of U32Range values.
InitMain == InitWith(0..MaxPMain, 0..MaxReps, {0})

NextMain ==
    \/ \E i \in 1..MaxReps : StartSimulation(i)
    \/ \E i \in 1..MaxReps : \E overflow_checks \in BOOLEAN :
          LoopIteration(i, U32Range, MaxStepsMain, MaxStepsMain, overflow_checks)
    \/ \E overflow_checks \in BOOLEAN : Summarise(U32Range, overflow_checks)

SpecMain == InitMain /\ [][NextMain]_vars

\* The pool at work: main with valid arguments and the calls of run_simulation
\* running in parallel, their steps interleaved in every order, followed for
\* MaxDrawsPool draws in all.
RECURSIVE TotalDraws(_)
TotalDraws(n) == IF n = 0 THEN 0 ELSE TotalDraws(n - 1) + Len(selections[n])

InitPool == InitWith(1..MaxPPool, 1..MaxRepsPool, {0})

NextPool ==
    \/ \E i \in 1..MaxRepsPool : StartSimulation(i)
    \/ \E i \in 1..MaxRepsPool : \E overflow_checks \in BOOLEAN :
          /\ TotalDraws(Len(selections)) < MaxDrawsPool
          /\ LoopIteration(i, U32Range, MaxDrawsPool, MaxDrawsPool, overflow_checks)
    \/ \E overflow_checks \in BOOLEAN : Summarise(U32Range, overflow_checks)

SpecPool == InitPool /\ [][NextPool]_vars

-----------------------------------------------------------------------------
\* What the claims speak of
PrisonerCount == args.flag_prisoner_count
Prisoners == 0..(PrisonerCount - 1)
Constructed(i) == sims[i].state # None
World(i) == unwrap(sims[i].state)
Known(i, a) == {b \in Prisoners : World(i).prisoners[a].known_visited_prisoners[b]}
Interrogated(i) == {b \in Prisoners : World(i).interrogated_prisoners[b]}
\* The prisoners drawn so far, and the one drawn last
Selected(i) == Elems(selections[i])
LastChosen(i) == selections[i][Len(selections[i])]
\* The steps (1, 2, ..) after which every prisoner has been drawn
CoveringSteps(i) ==
    {k \in 1..Len(selections[i]) : Elems(SubSeq(selections[i], 1, k)) = Prisoners}
FirstCoveringStep(i) ==
    CHOOSE k \in CoveringSteps(i) : \A m \in CoveringSteps(i) : k <= m

\* C1: in every state of a trial the ground truth is the set of prisoners
\* drawn so far, and what any prisoner believes to be visited is part of it.
C1_KnowledgeIsTrue ==
    \A i \in DOMAIN sims : Constructed(i) =>
        /\ Interrogated(i) = Selected(i)
        /\ \A a \in Prisoners : Known(i, a) \subseteq Interrogated(i)

\* C1 witness: a prisoner has learnt of another one through the light
C1_Witness ==
    \E i \in DOMAIN sims : Constructed(i) /\
        \E a \in Prisoners : \E b \in Known(i, a) : b # a

\* C2: after every step the chosen prisoner's count_known is at most the
\* number of prisoners interrogated, and the panic of line 129 is not reached.
C2_NeverOverEstimates ==
    \A i \in DOMAIN sims :
        /\ sims[i].fault # "over_estimated"
        /\ (Constructed(i) /\ selections[i] # <<>>) =>
              count_known(World(i).prisoners[LastChosen(i)])
                  <= count_true(World(i).interrogated_prisoners)

\* C2 witness: a step after which the chosen prisoner knows of two prisoners
\* and a third has not been interrogated
C2_Witness ==
    \E i \in DOMAIN sims :
        /\ Constructed(i) /\ selections[i] # <<>>
        /\ count_known(World(i).prisoners[LastChosen(i)]) = 2
        /\ count_true(World(i).interrogated_prisoners) = 2
        /\ PrisonerCount = 3

\* A step of the loop of the trial: no other step is taken while the call
\* is in the loop
LoopStep == sims[1].pc = "loop" /\ sims'[1].pc \in {"loop", "returned", "panicked"}
\* A step of the loop that draws prisoner a (any step of the loop when there
\* is no prisoner a)
Draws(a) ==
    /\ LoopStep
    /\ a < PrisonerCount => selections'[1][Len(selections'[1])] = a
\* A step of the loop that draws prisoner c on the day after prisoner t was
\* drawn on a day of slot t (any step of the loop when there is no prisoner c or t)
DrawsAfterSlot(c, t) ==
    /\ LoopStep
    /\ (c < PrisonerCount /\ t < PrisonerCount) =>
          /\ World(1).day > 0
          /\ (World(1).day - 1) % PrisonerCount = t
          /\ selections'[1] = <<t, c>>
Returned == sims[1].pc = "returned"

\* C3 as claimed: a trial in which every prisoner is drawn again and again
\* eventually returns.
C3_EveryPrisonerDrawnOftenFrees ==
    (\A a \in 0..(MaxPLive - 1) : []<><<Draws(a)>>_vars) => <>Returned

\* C3 as amended: a trial eventually returns if, for all prisoners c and t,
\* again and again t is drawn on a day of slot t and c on the day after.
C3_EveryRelayDrawnOftenFrees ==
    (\A c \in 0..(MaxPLive - 1) : \A t \in 0..(MaxPLive - 1) :
        []<><<DrawsAfterSlot(c, t)>>_vars)
    => <>Returned

\* C3 witness: a trial of several prisoners returns after its day counter wrapped
C3_Witness ==
    /\ PrisonerCount >= 2
    /\ Returned
    /\ World(1).day < unwrap(World(1).last_prisoner_interrogated_on_day)

\* C4: a trial that has returned was freed on or after the day of its last
\* interrogation.
C4_FreedNotBeforeLastInterrogation ==
    \A i \in DOMAIN sims : sims[i].pc = "returned" =>
        unwrap(sims[i].result).prisoners_freed_on_day
            >= unwrap(sims[i].result).last_prisoner_interrogated_on_day

\* C5: when iterate returns true the day of the last interrogation is set, so
\* the unwrap of run_simulation does not panic and the call returns a result.
C5_UnwrapNeverFails ==
    \A i \in DOMAIN sims :
        /\ sims[i].fault # "unwrap_none"
        /\ sims[i].pc = "returned" =>
              /\ World(i).last_prisoner_interrogated_on_day # None
              /\ Interrogated(i) = Prisoners
              /\ sims[i].result # None

\* C5 witness: a trial of several prisoners has returned
C5_Witness ==
    \E i \in DOMAIN sims : sims[i].pc = "returned" /\ PrisonerCount >= 2

\* The day counter at step k (1, 2, ..) of a trial
DayOfStep(k) == (k - 1) % U32Range

\* C6: last_prisoner_interrogated_on_day is unset until every prisoner has been
\* drawn, and from then on it is the day of the first step by which all had
\* been drawn, whatever steps follow.
C6_LastInterrogatedDay ==
    \A i \in DOMAIN sims : Constructed(i) =>
        IF CoveringSteps(i) = {}
        THEN World(i).last_prisoner_interrogated_on_day = None
        ELSE World(i).last_prisoner_interrogated_on_day =
                Some(DayOfStep(FirstCoveringStep(i)))

\* C6 witness: steps were taken after the day had been recorded
C6_Witness ==
    \E i \in DOMAIN sims :
        /\ Constructed(i)
        /\ CoveringSteps(i) # {}
        /\ FirstCoveringStep(i) + 2 <= Len(selections[i])
        /\ World(i).last_prisoner_interrogated_on_day =
              Some(DayOfStep(FirstCoveringStep(i)))

\* C7: with one prisoner the first step ends the trial, freed on day 0 with
\* the last interrogation on day 0.
C7_SinglePrisoner ==
    \A i \in DOMAIN sims : (PrisonerCount = 1 /\ selections[i] # <<>>) =>
        /\ Len(selections[i]) = 1
        /\ sims[i].pc = "returned"
        /\ sims[i].result = Some([last_prisoner_interrogated_on_day |-> 0,
                                  prisoners_freed_on_day |-> 0])

\* C7 witness: the trial of one prisoner has returned
C7_Witness ==
    \E i \in DOMAIN sims : PrisonerCount = 1 /\ sims[i].pc = "returned"

\* The selection sequence of 2P days of C8.  Prisoner 0 collects: prisoner t
\* is drawn on a day d with d mod P = t and leaves the light on, prisoner 0
\* is drawn on day d + 1.  The days d are the even ones for an odd P; for an
\* even P they are the odd ones up to P and the even ones after P.
RelayDay(P, d) ==
    IF P % 2 = 1 THEN d % 2 = 0
    ELSE IF d <= P THEN d % 2 = 1
    ELSE d % 2 = 0
FixedSelection(P) == [k \in 1..(2 * P) |-> IF RelayDay(P, k - 1) THEN (k - 1) % P ELSE 0]
FollowsFixedSelection(i) ==
    /\ Len(selections[i]) <= 2 * PrisonerCount
    /\ selections[i] = SubSeq(FixedSelection(PrisonerCount), 1, Len(selections[i]))

\* C8: a trial whose draws follow FixedSelection(P) does not panic, has
\* returned when the 2P draws are used up, and is freed on day 2P - 1 at the latest.
C8_FixedSelectionFrees ==
    \A i \in DOMAIN sims : FollowsFixedSelection(i) =>
        /\ sims[i].pc # "panicked"
        /\ sims[i].pc = "loop" => Len(selections[i]) < 2 * PrisonerCount
        /\ sims[i].pc = "returned" =>
              unwrap(sims[i].result).prisoners_freed_on_day <= 2 * PrisonerCount - 1

\* C8 witness: a trial of three prisoners that followed the sequence has returned
C8_Witness ==
    \E i \in DOMAIN sims :
        /\ PrisonerCount = 3
        /\ FollowsFixedSelection(i)
        /\ sims[i].pc = "returned"

\* C9: with --repetitions=0 or --prisoner-count=0 no WorldState is constructed,
\* no call of run_simulation panics and main does not panic.
C9_InvalidConfigurationRejected ==
    (args.flag_repetitions = 0 \/ args.flag_prisoner_count = 0) =>
        /\ main_pc # "panicked"
        /\ \A i \in DOMAIN sims : ~Constructed(i) /\ sims[i].pc # "panicked"

\* The sum of a sequence of numbers
RECURSIVE Sum(_)
Sum(xs) == IF Len(xs) = 0 THEN 0 ELSE Sum(SubSeq(xs, 1, Len(xs) - 1)) + xs[Len(xs)]
Results == [k \in DOMAIN sims |-> unwrap(sims[k].result)]

\* C10: the averages main prints are the sums of the fields over the results,
\* divided by the repetitions.
C10_AveragesAreSumsOverRepetitions ==
    main_pc = "done" =>
        /\ unwrap(averages).average_runtime =
              Sum(freed_days(Results, Len(Results))) \div args.flag_repetitions
        /\ unwrap(averages).average_last_interrogated_day =
              Sum(last_days(Results, Len(Results))) \div args.flag_repetitions

\* The orders in which n results can reach the Vec, and the Vec in such an order
Permutations(n) == {p \in [1..n -> 1..n] : \A j, k \in 1..n : p[j] = p[k] => j = k}
Permuted(results, p) == [k \in 1..Len(results) |-> results[p[k]]]
AllReturned == \A i \in DOMAIN sims : sims[i].pc = "returned"

\* C11: whatever the order of the results in the Vec, main computes the same
\* averages from them, and in a build with overflow checks it panics in the
\* sums for all orders or for none.
C11_AveragesIndependentOfOrder ==
    (AllReturned /\ args.flag_repetitions > 0) =>
        \A p \in Permutations(Len(Results)) :
            /\ average_runtime(Permuted(Results, p), args.flag_repetitions, U32Range)
                  = average_runtime(Results, args.flag_repetitions, U32Range)
            /\ average_last_interrogated_day(Permuted(Results, p),
                                             args.flag_repetitions, U32Range)
                  = average_last_interrogated_day(Results, args.flag_repetitions, U32Range)
            /\ fold_overflows(freed_days(Permuted(Results, p), Len(Results)), U32Range)
                  = fold_overflows(freed_days(Results, Len(Results)), U32Range)
            /\ fold_overflows(last_days(Permuted(Results, p), Len(Results)), U32Range)
                  = fold_overflows(last_days(Results, Len(Results)), U32Range)
            /\ main_pc = "done" =>
                  unwrap(averages).average_runtime =
                      average_runtime(Permuted(Results, p), args.flag_repetitions, U32Range)

\* C11 witness: main has averaged two trials that were freed on different days
C11_Witness ==
    /\ main_pc = "done"
    /\ \E j, k \in DOMAIN sims :
          unwrap(sims[j].result).prisoners_freed_on_day
              # unwrap(sims[k].result).prisoners_freed_on_day

\* The run_simulation call of a trial of P prisoners that runs on its own and
\* has drawn `draws`
RECURSIVE RunAlone(_, _)
RunAlone(P, draws) ==
    IF Len(draws) = 0
    THEN [Spawned EXCEPT !.pc = "loop", !.state = Some(WorldState_new(P))]
    ELSE LET before == RunAlone(P, SubSeq(draws, 1, Len(draws) - 1))
         IN  AfterIterate(before,
                 iterate(unwrap(before.state), draws[Len(draws)], U32Range, FALSE))

Finished == \A i \in DOMAIN sims : sims[i].pc \in {"returned", "panicked"}

\* C12: a step of one trial leaves every other trial as it was, so every
\* trial is where it would be had it run alone on its draws, with the same
\* result; and main goes on to the averages only when every trial has finished.
C12_TrialsAreIsolated ==
    /\ [](\A i \in DOMAIN sims : sims[i].pc \in {"loop", "returned"} =>
              sims[i] = RunAlone(PrisonerCount, selections[i]))
    /\ [](main_pc # "map" => Finished)
    /\ [][\A i, j \in DOMAIN sims : (i # j /\ sims'[i] # sims[i]) =>
              /\ sims'[j] = sims[j]
              /\ selections'[j] = selections[j]
              /\ logs'[j] = logs[j]]_vars
    /\ [][main_pc' # main_pc => (Finished /\ sims' = sims)]_vars

\* C12 witness: two trials that drew differently have both returned, and main
\* has computed the averages
C12_Witness ==
    /\ main_pc = "done"
    /\ \E i, j \in DOMAIN sims :
          /\ selections[i] # selections[j]
          /\ Len(selections[i]) >= 2 /\ Len(selections[j]) >= 2

\* A step of trial i that draws a prisoner and calls select_light_position on
\* it, the prisoner drawn, and the WorldState the step leaves
Stepped(i) == sims[i].pc = "loop" /\ selections'[i] # selections[i]
ChosenNow(i) == selections'[i][Len(selections'[i])]
WorldAfter(i) == unwrap(sims'[i].state)
KnownAfter(i, a) ==
    {b \in Prisoners : WorldAfter(i).prisoners[a].known_visited_prisoners[b]}

\* C13: a call of select_light_position on day d with the light as it was
\* left makes the chosen prisoner know exactly what it knew, itself and, when
\* d > 0 and the light is on, prisoner (d - 1) mod P; it leaves the light on
\* iff the prisoner then knows prisoner d mod P.  On day 0 the light is ignored.
C13_DecideUpdatesExactly ==
    [][\A i \in DOMAIN sims : Stepped(i) =>
          LET c == ChosenNow(i)
              d == World(i).day
              learnt == IF d > 0 /\ World(i).light_is_on
                        THEN {(d - 1) % PrisonerCount}
                        ELSE {}
          IN  /\ KnownAfter(i, c) = Known(i, c) \cup {c} \cup learnt
              /\ WorldAfter(i).light_is_on = ((d % PrisonerCount) \in KnownAfter(i, c))]_vars

\* C13 witness: the day counter has wrapped and the step of the second day 0
\* has been taken by a prisoner that still does not know every prisoner
C13_Witness ==
    /\ PrisonerCount >= 2
    /\ sims[1].pc = "loop"
    /\ Len(selections[1]) = U32Range + 1
    /\ World(1).day = 1
    /\ Known(1, LastChosen(1)) # Prisoners

\* C14: the day is the number of steps that did not end the trial, and a
\* trial that has returned was freed on the day of its last step, which is
\* the number of its steps minus one.
C14_FreedOnDayOfLastStep ==
    \A i \in DOMAIN sims : Constructed(i) =>
        /\ sims[i].pc = "loop" => World(i).day = Len(selections[i])
        /\ sims[i].pc = "returned" =>
              /\ World(i).day = Len(selections[i]) - 1
              /\ unwrap(sims[i].result).prisoners_freed_on_day = Len(selections[i]) - 1

InterrogatedAfter(i) == {b \in Prisoners : WorldAfter(i).interrogated_prisoners[b]}

\* C15: no step of a trial takes a prisoner out of what a prisoner knows or
\* out of the interrogated prisoners, and no count_known and no count of the
\* interrogated prisoners goes down.
C15_KnowledgeOnlyGrows ==
    [][\A i \in DOMAIN sims : Constructed(i) =>
          /\ Interrogated(i) \subseteq InterrogatedAfter(i)
          /\ count_true(World(i).interrogated_prisoners)
                <= count_true(WorldAfter(i).interrogated_prisoners)
          /\ \A a \in Prisoners :
                /\ Known(i, a) \subseteq KnownAfter(i, a)
                /\ count_known(World(i).prisoners[a])
                      <= count_known(WorldAfter(i).prisoners[a])]_vars

\* C15 witness: three prisoners have all been interrogated, one of them knows
\* of two, and the trial goes on
C15_Witness ==
    \E i \in DOMAIN sims :
        /\ sims[i].pc = "loop" /\ Constructed(i)
        /\ PrisonerCount = 3
        /\ Interrogated(i) = Prisoners
        /\ \E a \in Prisoners : Cardinality(Known(i, a)) = 2

\* C16: every prisoner starts a trial knowing of nobody, and a step of the
\* trial changes what the chosen prisoner knows and nothing of what any other
\* prisoner knows.
C16_OnlyChosenLearns ==
    /\ [](\A i \in DOMAIN sims : (Constructed(i) /\ selections[i] = <<>>) =>
              \A a \in Prisoners : Known(i, a) = {})
    /\ [][\A i \in DOMAIN sims : Constructed(i) =>
              \A a \in Prisoners :
                  KnownAfter(i, a) # Known(i, a) => (Stepped(i) /\ a = ChosenNow(i))]_vars

\* C16 witness: a prisoner that was chosen knows of two prisoners while another
\* that was chosen too knows only of itself
C16_Witness ==
    \E i \in DOMAIN sims : Constructed(i) /\
        \E a, b \in Selected(i) :
            /\ Cardinality(Known(i, a)) = 2
            /\ Known(i, b) = {b}

LogPeriod == args.flag_log_period
LoggedDays(i) == {logs[i][k].day : k \in 1..Len(logs[i])}

\* C17 as claimed: with --log-period=0 nothing is logged; with a period L > 0
\* only days d with d mod L = 0 are logged, and every such day that the
\* trial has been through is.
C17_LoggedOnEveryAlignedDay ==
    \A i \in DOMAIN sims : Constructed(i) =>
        IF LogPeriod = 0
        THEN logs[i] = <<>>
        ELSE /\ \A d \in LoggedDays(i) : d % LogPeriod = 0
             /\ \A d \in 0..World(i).day :
                    (d < World(i).day /\ d % LogPeriod = 0) => d \in LoggedDays(i)

\* C17 as amended: with --log-period=0 nothing is logged; with a period L > 0
\* a step that does not end the trial, and no other, logs the day it has
\* moved on to, when that day mod L = 0, with the most any prisoner knows
\* after the step.  So nothing is logged for day 0 before the first step nor
\* by the step that ends the trial, and while the day counter has not
\* overflowed the days logged are the days d >= 1 reached with d mod L = 0,
\* in order.
C17_LoggedAfterEveryAlignedStep ==
    /\ [](\A i \in DOMAIN sims : Constructed(i) =>
              IF LogPeriod = 0
              THEN logs[i] = <<>>
              ELSE /\ LoggedDays(i) = {d \in 1..World(i).day : d % LogPeriod = 0}
                   /\ \A k \in 1..(Len(logs[i]) - 1) :
                          /\ logs[i][k].day < logs[i][k + 1].day
                          /\ logs[i][k].max_known <= logs[i][k + 1].max_known)
    /\ [][\A i \in DOMAIN sims :
              logs'[i] =
                  IF /\ Stepped(i) /\ sims'[i].pc = "loop"
                     /\ LogPeriod > 0 /\ WorldAfter(i).day % LogPeriod = 0
                  THEN Append(logs[i], [day |-> WorldAfter(i).day,
                                        max_known |-> best_known(WorldAfter(i))])
                  ELSE logs[i]]_vars

\* C17 witness: a trial with --log-period=2 has logged days 2 and 4
C17_Witness ==
    \E i \in DOMAIN sims :
        /\ LogPeriod = 2
        /\ LoggedDays(i) = {2, 4}

\* C18: the day counter does not overflow: line 141 does not panic, and a
\* trial that goes on has taken fewer steps than a u32 has values, so that
\* every self.day += 1 gave a value of the counter's range.
C18_DayNeverOverflows ==
    \A i \in DOMAIN sims :
        /\ sims[i].fault # "day_overflow"
        /\ (Constructed(i) /\ sims[i].pc = "loop") => Len(selections[i]) < U32Range

\* The day of the last step of a trial that has taken a step, on a day counter
\* of U32Range values: the step that ends the trial or panics leaves the day
\* as it is
LastStepDay(i) ==
    IF sims[i].pc = "loop"
    THEN (World(i).day + U32Range - 1) % U32Range
    ELSE World(i).day

\* C19: when the light is on at the start of a day d > 0, prisoner
\* (d - 1) mod P has been interrogated; and when the step of a day d has left
\* the light on, prisoner d mod P has been interrogated.
C19_LightIsSound ==
    \A i \in DOMAIN sims : (Constructed(i) /\ World(i).light_is_on) =>
        /\ selections[i] # <<>>
        /\ (sims[i].pc = "loop" /\ World(i).day > 0) =>
              ((World(i).day - 1) % PrisonerCount) \in Interrogated(i)
        /\ (LastStepDay(i) % PrisonerCount) \in Interrogated(i)

\* C19 witness: the light is on at the start of a day for a prisoner other
\* than the one who left it on
C19_Witness ==
    \E i \in DOMAIN sims :
        /\ Constructed(i) /\ sims[i].pc = "loop"
        /\ World(i).light_is_on /\ World(i).day > 0
        /\ (World(i).day - 1) % PrisonerCount # LastChosen(i)

\* C20: the step of a day d that chose prisoner d mod P has left the light
\* on, and the step of a day 0 has left the light on only if it chose prisoner 0.
C20_OwnSlotLight ==
    \A i \in DOMAIN sims : (Constructed(i) /\ selections[i] # <<>>) =>
        /\ LastChosen(i) = LastStepDay(i) % PrisonerCount => World(i).light_is_on
        /\ (LastStepDay(i) = 0 /\ World(i).light_is_on) => LastChosen(i) = 0

=============================================================================
